---- MODULE Spec2Model ----
(***************************************************************************)
(* A model of generate_pluginmaster.py: the batch run that walks           *)
(* ./plugins, trims, validates and enriches every plugin manifest, stamps  *)
(* LastUpdate against the previous pluginmaster.json, sorts and writes     *)
(* the new pluginmaster.json.                                              *)
(*                                                                         *)
(* Conventions.  A Python str is a sequence of chunks (TLA+ strings): the  *)
(* characters of a name or a version, the syntactic pieces of a URL        *)
(* ("https:", "//", "github.com", "/", ...).  A JSON value is a record     *)
(* [t, s, n]: its type tag, its text or elements, its number.              *)
(***************************************************************************)
EXTENDS Integers, Sequences, FiniteSets, TLC

VARIABLES
    files,      \* ./plugins: the manifest files, in os.walk discovery order
    master,     \* pluginmaster.json on disk
    remote,     \* what the releases API answers for a version tag
    clock,      \* time(), integer seconds
    pc,         \* where main() is: "walk", "sort", "done", "raised" ("idle": not running)
    i,          \* the file the walk of extract_manifests looks at next
    manifests,  \* extract_manifests' local list
    logs,       \* the lines log() printed
    raised,     \* the function an uncaught exception came out of, or "none"
    run,        \* number of the current run
    readIndex,  \* what get_last_updated_times loaded from pluginmaster.json
    url,        \* the argument of a lone parse_owner_repo call
    parsed      \* its outcome

vars == <<files, master, remote, clock, pc, i, manifests, logs, raised, run,
          readIndex, url, parsed>>

(***************************************************************************)
(* JSON values                                                             *)
(***************************************************************************)
Absent == [t |-> "absent", s |-> <<>>, n |-> 0]    \* the key is not there
Null == [t |-> "null", s |-> <<>>, n |-> 0]
Str(s) == [t |-> "str", s |-> s, n |-> 0]
Num(k) == [t |-> "int", s |-> <<>>, n |-> k]
Bool(b) == [t |-> "bool", s |-> <<>>, n |-> IF b THEN 1 ELSE 0]
List(s) == [t |-> "list", s |-> s, n |-> 0]

\* the object {}
EmptyDict == [t |-> "dict", s |-> <<>>, n |-> 0]

(***************************************************************************)
(* Strings                                                                 *)
(***************************************************************************)
RECURSIVE lstrip(_, _)
lstrip(s, chars) ==
    IF Len(s) > 0 /\ Head(s) \in chars THEN lstrip(Tail(s), chars) ELSE s

RECURSIVE rstrip(_, _)
rstrip(s, chars) ==
    IF Len(s) > 0 /\ s[Len(s)] \in chars
    THEN rstrip(SubSeq(s, 1, Len(s) - 1), chars)
    ELSE s

\* str.strip(): whitespace off both ends
strip(s) == rstrip(lstrip(s, {" "}), {" "})

\* str(int): the decimal digits
Digit(d) == <<"0", "1", "2", "3", "4", "5", "6", "7", "8", "9">>[d + 1]

RECURSIVE IntToStr(_)
IntToStr(k) ==
    IF k < 10 THEN <<Digit(k)>> ELSE Append(IntToStr(k \div 10), Digit(k % 10))

\* str(v) of a JSON value as enrich_manifest and validate_manifest take it
PyStr(v) ==
    CASE v.t = "str" -> v.s
      [] v.t = "int" -> IntToStr(v.n)
      [] v.t = "null" -> <<"N", "o", "n", "e">>
      [] v.t = "bool" -> IF v.n = 1 THEN <<"T", "r", "u", "e">>
                                    ELSE <<"F", "a", "l", "s", "e">>
      [] v.t = "dict" -> <<"{", "}">>
      [] OTHER -> <<"[">> \o v.s \o <<"]">>

(***************************************************************************)
(* parse_owner_repo                                                        *)
(***************************************************************************)
Schemes == {"https:", "http:"}
Slashes == {"/", "//"}

\* index of the first chunk of s that is in stop, Len(s) + 1 when none is
RECURSIVE FindFirst(_, _, _)
FindFirst(s, stop, from) ==
    IF from > Len(s) \/ s[from] \in stop THEN from
    ELSE FindFirst(s, stop, from + 1)

\* urllib.parse.urlparse, as far as netloc and path go
urlparse(u) ==
    LET noScheme == IF Len(u) > 0 /\ u[1] \in Schemes THEN Tail(u) ELSE u
        hasNetloc == Len(noScheme) > 0 /\ noScheme[1] = "//"
        rest == IF hasNetloc THEN Tail(noScheme) ELSE noScheme
        cut == IF hasNetloc THEN FindFirst(rest, Slashes \cup {"?", "#"}, 1) ELSE 1
        tail == SubSeq(rest, cut, Len(rest))
        stop == FindFirst(tail, {"?", "#"}, 1)
    IN  [netloc |-> SubSeq(rest, 1, cut - 1), path |-> SubSeq(tail, 1, stop - 1)]

\* [x for x in path.split("/") if x]
RECURSIVE Segments(_)
Segments(path) ==
    IF Len(path) = 0 THEN <<>>
    ELSE IF path[1] \in Slashes THEN Segments(Tail(path))
    ELSE LET stop == FindFirst(path, Slashes, 1)
         IN  <<SubSeq(path, 1, stop - 1)>> \o Segments(SubSeq(path, stop, Len(path)))

Raise(what) == [ok |-> FALSE, err |-> what, owner |-> <<>>, repo |-> <<>>]

GithubHosts == {<<"github.com">>, <<"www.github.com">>}

parse_owner_repo_AnyHost(repo_url) ==
    IF repo_url.t # "str" THEN Raise("RepoUrl is not a str")
    ELSE LET parts == Segments(urlparse(repo_url.s).path)
         IN  IF Len(parts) < 2 THEN Raise("RepoUrl path should be /owner/repo")
             ELSE [ok |-> TRUE, err |-> "", owner |-> parts[1], repo |-> parts[2]]

parse_owner_repo(repo_url) ==
    IF repo_url.t # "str" THEN Raise("RepoUrl is not a str")
    ELSE LET p == urlparse(repo_url.s)
             parts == Segments(p.path)
         IN  IF p.netloc \notin GithubHosts THEN Raise("RepoUrl is not github.com")
             ELSE IF Len(parts) < 2 THEN Raise("RepoUrl path should be /owner/repo")
             ELSE [ok |-> TRUE, err |-> "", owner |-> parts[1], repo |-> parts[2]]

NotParsed == Raise("not called")

\* pluginmaster.json before any run: there is no such file
NoMaster == [kind |-> "absent", items |-> <<>>]

(***************************************************************************)
(* A lone call of parse_owner_repo on the URLs made of at most MaxPath     *)
(* path chunks after an optional scheme, "//" and host, with an optional   *)
(* query or fragment behind them.                                          *)
(***************************************************************************)
MaxPath == 5

\* the sequences over S of length at most k
SeqsUpTo(S, k) == UNION {[1..n -> S] : n \in 0..k}

UrlHosts == {<<>>, <<"github.com">>, <<"www.github.com">>, <<"gitlab.com">>}
UrlTails == {<<>>, <<"?", "q">>, <<"#", "f">>}
UrlPaths == SeqsUpTo({"/", "o", "r"}, MaxPath)

Urls ==
    {sch \o sl \o h \o p \o t :
        sch \in {<<>>, <<"https:">>}, sl \in {<<>>, <<"//">>},
        h \in UrlHosts, p \in UrlPaths, t \in UrlTails}

Idle ==
    /\ files = <<>> /\ master = NoMaster /\ remote = <<>> /\ clock = 0
    /\ pc = "idle" /\ i = 0 /\ manifests = <<>> /\ logs = <<>>
    /\ raised = "none" /\ run = 0 /\ readIndex = <<>>

InitUrl == Idle /\ url \in Urls /\ parsed = NotParsed

ParseUrl ==
    /\ parsed = NotParsed
    /\ parsed' = parse_owner_repo(Str(url))
    /\ UNCHANGED <<files, master, remote, clock, pc, i, manifests, logs, raised,
                   run, readIndex, url>>

NextUrl == ParseUrl

SpecUrl == InitUrl /\ [][NextUrl]_vars

\* url reads https://github.com/{owner}/{repo}, owner and repo being names
NameChunks == {"o", "r"}

RepoForm(owner, repo) == <<"https:", "//", "github.com", "/">> \o owner \o <<"/">> \o repo

IsName(n) == Len(n) > 0 /\ \A k \in 1..Len(n) : n[k] \in NameChunks

\* url is RepoForm(owner, repo) for some names owner and repo: one "/" between
IsRepoForm(u) ==
    /\ Len(u) >= 7
    /\ SubSeq(u, 1, 4) = <<"https:", "//", "github.com", "/">>
    /\ \E k \in 6..(Len(u) - 1) :
          /\ u[k] = "/"
          /\ IsName(SubSeq(u, 5, k - 1)) /\ IsName(SubSeq(u, k + 1, Len(u)))

\* the names are the only way to read such a url, so this is what the claim
\* asks of every owner and repo
ReturnsOwnerAndRepo ==
    IsRepoForm(url) =>
        /\ parsed.ok /\ IsName(parsed.owner) /\ IsName(parsed.repo)
        /\ url = RepoForm(parsed.owner, parsed.repo)

\* the host and the path segments of a URL
HostOf(u) == urlparse(u).netloc
SegmentsOf(u) == Segments(urlparse(u).path)

\* C9, as claimed: parse_owner_repo returns (owner, repo) for every
\* https://github.com/{owner}/{repo} and raises for every URL whose host is
\* not github.com or whose path has fewer than two non-empty segments.
C9_FailsOffGithubCom ==
    parsed # NotParsed =>
        /\ ReturnsOwnerAndRepo
        /\ (HostOf(url) # <<"github.com">> \/ Len(SegmentsOf(url)) < 2) => ~parsed.ok

\* C9, amended: parse_owner_repo returns (owner, repo) for every
\* https://github.com/{owner}/{repo} and raises for every URL whose host is
\* neither github.com nor www.github.com or whose path has fewer than two
\* non-empty segments.
C9_FailsOffGithubHosts ==
    parsed # NotParsed =>
        /\ ReturnsOwnerAndRepo
        /\ (HostOf(url) \notin {<<"github.com">>, <<"www.github.com">>}
             \/ Len(SegmentsOf(url)) < 2) => ~parsed.ok

\* a URL on www.github.com has been parsed into its owner and repository
C9_Witness ==
    /\ parsed.ok
    /\ url = <<"https:", "//", "www.github.com", "/", "o", "/", "r">>
    /\ parsed.owner = <<"o">> /\ parsed.repo = <<"r">>

(***************************************************************************)
(* Manifests.  A JSON object is a function from AllKeys to JSON values,    *)
(* Absent where it has no such key.  Of the fourteen TRIMMED_KEYS the      *)
(* model carries the three required ones, Name (standing for the other     *)
(* free-text keys, which are copied through alike) and ApplicableVersion.  *)
(***************************************************************************)
TRIMMED_KEYS == {"Name", "InternalName", "AssemblyVersion", "RepoUrl", "ApplicableVersion"}

UntrimmedKeys ==
    {"Name", "InternalName", "AssemblyVersion", "RepoUrl", "ApplicableVersion",
     "IsHide", "IsTestingExclusive", "DownloadLinkTesting", "DownloadLinkUpdate"}

REQUIRED_KEYS == <<"InternalName", "AssemblyVersion", "RepoUrl">>

DEFAULTS ==
    [IsHide |-> Bool(FALSE), IsTestingExclusive |-> Bool(FALSE),
     ApplicableVersion |-> Str(<<"any">>)]

DUPLICATES == [DownloadLinkInstall |-> {"DownloadLinkTesting", "DownloadLinkUpdate"}]

AllKeys ==
    {"Name", "InternalName", "AssemblyVersion", "RepoUrl", "ApplicableVersion",
     "IsHide", "IsTestingExclusive", "DownloadLinkInstall", "DownloadLinkTesting",
     "DownloadLinkUpdate", "DownloadCount", "LastUpdate"}

EmptyObj == [k \in AllKeys |-> Absent]

\* dict.get(k): None for a key that is not there
Get(o, k) == IF o[k] = Absent THEN Null ELSE o[k]

\* dict.get(k, default)
GetOr(o, k, default) == IF o[k] = Absent THEN default ELSE o[k]

(***************************************************************************)
(* A manifest file: what json.load makes of it.  kind is "unreadable"      *)
(* (open or json.load raises: no such file, bad encoding, not JSON),       *)
(* "null", "number", "bool", "string", "array" or "object"; hit says that  *)
(* a string or array holds one of the TRIMMED_KEYS (as a substring, as an  *)
(* element); obj is the object.                                            *)
(***************************************************************************)
File(kind, hit, obj) == [kind |-> kind, hit |-> hit, obj |-> obj]

PyNone == File("null", FALSE, EmptyObj)

safe_load_json(f) == IF f.kind = "unreadable" THEN PyNone ELSE f

\* trim_manifest raises TypeError: "k in plugin" on a number or a bool,
\* plugin[k] on a string or a list that holds k
TrimRaises(plugin) ==
    \/ plugin.kind \in {"number", "bool"}
    \/ plugin.kind \in {"string", "array"} /\ plugin.hit

trim_manifest_KeepAll(plugin) ==
    [k \in AllKeys |-> IF k \in UntrimmedKeys THEN plugin.obj[k] ELSE Absent]

trim_manifest(plugin) ==
    [k \in AllKeys |-> IF k \in TRIMMED_KEYS THEN plugin.obj[k] ELSE Absent]

(***************************************************************************)
(* validate_manifest                                                       *)
(***************************************************************************)
Err(msg, key) == [msg |-> msg, key |-> key]

\* manifest[k] in (None, "", [])
IsBlankValue(v) == v.t = "null" \/ (v.t \in {"str", "list"} /\ Len(v.s) = 0)

RECURSIVE MissingErrors(_, _)
MissingErrors(manifest, keys) ==
    IF Len(keys) = 0 THEN <<>>
    ELSE (IF manifest[Head(keys)] = Absent \/ IsBlankValue(manifest[Head(keys)])
          THEN <<Err("missing required key", Head(keys))>> ELSE <<>>)
         \o MissingErrors(manifest, Tail(keys))

FirstMissingError(manifest, keys) ==
    LET all == MissingErrors(manifest, keys)
    IN  IF Len(all) = 0 THEN <<>> ELSE <<Head(all)>>

RequiredErrors(manifest, keys) == MissingErrors(manifest, keys)

validate_manifest(manifest) ==
    LET got == parse_owner_repo(GetOr(manifest, "RepoUrl", Str(<<>>)))
        urlErrors ==
            IF ~got.ok THEN <<Err("RepoUrl invalid", got.err)>>
            ELSE IF Len(got.owner) = 0 \/ Len(got.repo) = 0
            THEN <<Err("RepoUrl is not a valid GitHub repository URL", "")>>
            ELSE <<>>
        versionErrors ==
            IF manifest["AssemblyVersion"] # Absent
               /\ Len(strip(PyStr(manifest["AssemblyVersion"]))) = 0
            THEN <<Err("AssemblyVersion is empty", "")>> ELSE <<>>
        errors == RequiredErrors(manifest, REQUIRED_KEYS) \o urlErrors \o versionErrors
    IN  [ok |-> Len(errors) = 0, errs |-> errors]

(***************************************************************************)
(* The releases API.  A response is [kind, status, shape, assets]: kind    *)
(* "timeout" or "refused" (requests.get raises) or "http"; shape, what     *)
(* r.json() makes of the body: "garbage" (it raises), "array", "object"    *)
(* (assets is its "assets" list), "noassets" (an object with no such key)  *)
(* or "badassets" (an object whose "assets" is a number).  An asset is     *)
(* [obj, dc]: whether it is an object, and its download_count.             *)
(***************************************************************************)
Response(kind, status, shape, assets) ==
    [kind |-> kind, status |-> status, shape |-> shape, assets |-> assets]

Asset(dc) == [obj |-> TRUE, dc |-> dc]

NotAnObject == [obj |-> FALSE, dc |-> Absent]

NotFound == Response("http", 404, "noassets", <<>>)

\* requests.get(url): the tag v{version} of the repository
requests_get(owner, repo, version) ==
    IF version \in DOMAIN remote THEN remote[version] ELSE NotFound

\* sum(...) raises on the first asset that is no object or whose count is no number
SumRaises(assets) ==
    \E k \in 1..Len(assets) :
        \/ ~assets[k].obj
        \/ assets[k].dc.t \notin {"absent", "int", "bool"}

RECURSIVE SumCounts(_)
SumCounts(assets) ==
    IF Len(assets) = 0 THEN 0 ELSE Head(assets).dc.n + SumCounts(Tail(assets))

CountOf(r) ==
    IF r.kind # "http" THEN 0
    ELSE IF r.status # 200 THEN 0
    ELSE IF r.shape \in {"garbage", "array", "badassets"} THEN 0
    ELSE IF r.shape = "noassets" THEN 0
    ELSE IF SumRaises(r.assets) THEN 0
    ELSE SumCounts(r.assets)

\* what has been added up when sum(...) stops at an unusable asset
RECURSIVE SumUntilBad(_)
SumUntilBad(assets) ==
    IF Len(assets) = 0 \/ SumRaises(<<Head(assets)>>) THEN 0
    ELSE Head(assets).dc.n + SumUntilBad(Tail(assets))

get_release_download_count_Partial(owner, repo, version) ==
    IF CountOf(requests_get(owner, repo, version)) = 0
       /\ requests_get(owner, repo, version).kind = "http"
       /\ requests_get(owner, repo, version).status = 200
       /\ requests_get(owner, repo, version).shape = "object"
    THEN SumUntilBad(requests_get(owner, repo, version).assets)
    ELSE CountOf(requests_get(owner, repo, version))

get_release_download_count(owner, repo, version) ==
    CountOf(requests_get(owner, repo, version))

(***************************************************************************)
(* enrich_manifest: [ok, o], ok FALSE when it raises                       *)
(***************************************************************************)
DOWNLOAD_URL_TEMPLATE(repo_url, version) ==
    repo_url \o <<"/releases/download/v">> \o version \o <<"/latest.zip">>

setdefault(o, k, v) == IF o[k] = Absent THEN [o EXCEPT ![k] = v] ELSE o

enrich_manifest(manifest) ==
    IF manifest["RepoUrl"].t # "str" \/ manifest["AssemblyVersion"] = Absent
    THEN [ok |-> FALSE, o |-> manifest]
    ELSE
    LET version == strip(PyStr(manifest["AssemblyVersion"]))
        repo_url == rstrip(manifest["RepoUrl"].s, {"/", "//"})
        link == Str(DOWNLOAD_URL_TEMPLATE(repo_url, version))
        got == parse_owner_repo(Str(repo_url))
    IN  [ok |-> got.ok,
         o |-> [k \in AllKeys |->
                  CASE k = "DownloadLinkInstall" -> link
                    [] k \in DOMAIN DEFAULTS -> setdefault(manifest, k, DEFAULTS[k])[k]
                    [] k \in DUPLICATES["DownloadLinkInstall"] -> setdefault(manifest, k, link)[k]
                    [] k = "DownloadCount" /\ got.ok ->
                         Num(get_release_download_count(got.owner, got.repo, version))
                    [] OTHER -> manifest[k]]]

(***************************************************************************)
(* One pass of the loop of extract_manifests over one manifest file:       *)
(* [out, o, lines], out being "unreadable", "raise", "skip" or "append".   *)
(***************************************************************************)
Line(path, msg, key) == [path |-> path, msg |-> msg, key |-> key]

SkipLines(path, errs) == [k \in 1..Len(errs) |-> Line(path, errs[k].msg, errs[k].key)]

Visit(f, path) ==
    LET raw == safe_load_json(f)
    IN  IF raw = PyNone
        THEN [out |-> "unreadable", o |-> EmptyObj,
              lines |-> <<Line(path, "invalid JSON or unreadable", "")>>]
        ELSE IF TrimRaises(raw)
        THEN [out |-> "raise", o |-> EmptyObj, lines |-> <<>>]
        ELSE LET trimmed == trim_manifest(raw)
                 checked == validate_manifest(trimmed)
                 enriched == enrich_manifest(trimmed)
             IN  IF ~checked.ok
                 THEN [out |-> "skip", o |-> trimmed, lines |-> SkipLines(path, checked.errs)]
                 ELSE IF ~enriched.ok
                 THEN [out |-> "skip", o |-> trimmed,
                       lines |-> <<Line(path, "enrichment failed", "")>>]
                 ELSE [out |-> "append", o |-> enriched.o, lines |-> <<>>]

\* An element of a list of manifests, in memory or in pluginmaster.json: dict
\* says that it is an object, o is the object; src, which no code reads, is the
\* place in files of the manifest file it was made from (0: of none).
Entry(o, src) == [dict |-> TRUE, o |-> o, src |-> src]

NotADict == [dict |-> FALSE, o |-> EmptyObj, src |-> 0]

(***************************************************************************)
(* get_last_updated_times: [ok, list], ok FALSE when it raises.  previous  *)
(* is pluginmaster.json: [kind, items], kind being "absent", "unreadable"  *)
(* (open or json.load raises), "null", "number", "bool", "string",         *)
(* "object" or "array" (items are its elements).                           *)
(***************************************************************************)
Unhashable(v) == v.t \in {"list", "dict"}

\* json.load under try/except: any failure reads as []
LoadPrevious(previous) ==
    IF previous.kind \in {"absent", "unreadable"} THEN [kind |-> "array", items |-> <<>>]
    ELSE previous

\* "for m in previous_manifests" raises TypeError
IterRaises(loaded) == loaded.kind \in {"null", "number", "bool"}

\* the elements of a string are its characters, of an object its keys: no dicts
Elements(loaded) == IF loaded.kind = "array" THEN loaded.items ELSE <<>>

Usable(m) == m.dict /\ m.o["InternalName"] # Absent

\* prev_map.get(name): the last usable element filed under name, or none
PrevIndexOf(elems, name) ==
    LET hits == {k \in 1..Len(elems) : Usable(elems[k]) /\ elems[k].o["InternalName"] = name}
    IN  IF hits = {} THEN 0 ELSE CHOOSE k \in hits : \A j \in hits : j <= k

StampOne_NameOnly(m, elems, now_str) ==
    LET at == PrevIndexOf(elems, Get(m.o, "InternalName"))
    IN  IF at # 0
        THEN [m EXCEPT !.o["LastUpdate"] = GetOr(elems[at].o, "LastUpdate", now_str)]
        ELSE [m EXCEPT !.o["LastUpdate"] = now_str]

StampOne(m, elems, now_str) ==
    LET at == PrevIndexOf(elems, Get(m.o, "InternalName"))
    IN  IF at # 0 /\ Get(elems[at].o, "AssemblyVersion") = Get(m.o, "AssemblyVersion")
        THEN [m EXCEPT !.o["LastUpdate"] = GetOr(elems[at].o, "LastUpdate", now_str)]
        ELSE [m EXCEPT !.o["LastUpdate"] = now_str]

get_last_updated_times(list, previous, now) ==
    LET loaded == LoadPrevious(previous)
        elems == Elements(loaded)
        now_str == Str(IntToStr(now))
    IN  IF \/ IterRaises(loaded)
           \/ \E k \in 1..Len(elems) : Usable(elems[k]) /\ Unhashable(elems[k].o["InternalName"])
           \/ \E k \in 1..Len(list) : Unhashable(Get(list[k].o, "InternalName"))
        THEN [ok |-> FALSE, list |-> list]
        ELSE [ok |-> TRUE, list |-> [k \in 1..Len(list) |-> StampOne(list[k], elems, now_str)]]

(***************************************************************************)
(* main: list.sort on (InternalName, AssemblyVersion), then write_master   *)
(***************************************************************************)
\* the characters in code point order
Alphabet ==
    <<" ", ".", "0", "1", "2", "3", "4", "5", "6", "7", "8", "9", "A", "B", "C">>

Ord(c) == CHOOSE k \in 1..Len(Alphabet) : Alphabet[k] = c

\* str < str
RECURSIVE StrLess(_, _)
StrLess(a, b) ==
    IF Len(b) = 0 THEN FALSE
    ELSE IF Len(a) = 0 THEN TRUE
    ELSE IF Head(a) # Head(b) THEN Ord(Head(a)) < Ord(Head(b))
    ELSE StrLess(Tail(a), Tail(b))

\* the key of main's lambda: a pair of JSON values
SortKey(m) ==
    <<GetOr(m.o, "InternalName", Str(<<>>)), GetOr(m.o, "AssemblyVersion", Str(<<>>))>>

\* v < w is defined: two strs, two numbers or two lists
Ordered(v, w) ==
    \/ v.t = w.t /\ v.t \in {"str", "list"}
    \/ v.t \in {"int", "bool"} /\ w.t \in {"int", "bool"}

\* v < w
ValueLess(v, w) == IF v.t \in {"str", "list"} THEN StrLess(v.s, w.s) ELSE v.n < w.n

\* tuple < tuple: "<" is asked of the first pair of elements that differ
KeyLess(a, b) ==
    IF a[1] # b[1] THEN ValueLess(a[1], b[1]) ELSE a[2] # b[2] /\ ValueLess(a[2], b[2])

\* tuple < tuple raises TypeError: that pair has no "<"
KeyRaises(a, b) ==
    IF a[1] # b[1] THEN ~Ordered(a[1], b[1]) ELSE a[2] # b[2] /\ ~Ordered(a[2], b[2])

\* list.sort is stable: an element goes behind the ones that are not greater
RECURSIVE Insert(_, _)
Insert(sorted, m) ==
    IF Len(sorted) = 0 THEN <<m>>
    ELSE IF KeyLess(SortKey(m), SortKey(Head(sorted))) THEN <<m>> \o sorted
    ELSE <<Head(sorted)>> \o Insert(Tail(sorted), m)

RECURSIVE Sorted(_)
Sorted(list) ==
    IF Len(list) = 0 THEN <<>>
    ELSE Insert(Sorted(SubSeq(list, 1, Len(list) - 1)), list[Len(list)])

\* list.sort lets the TypeError of a comparison out
SortRaisesOn(list) ==
    \E j \in 1..Len(list), k \in 1..Len(list) : KeyRaises(SortKey(list[j]), SortKey(list[k]))

\* manifests.sort(key=...): [ok, list], ok FALSE when it raises
sort(list) ==
    IF SortRaisesOn(list) THEN [ok |-> FALSE, list |-> list]
    ELSE [ok |-> TRUE, list |-> Sorted(list)]

write_master(list) == [kind |-> "array", items |-> list]

(***************************************************************************)
(* The run, one loop pass of extract_manifests at a time                   *)
(***************************************************************************)
WalkSkipUnreadable ==
    /\ pc = "walk" /\ i <= Len(files)
    /\ \E v \in {Visit(files[i], i)} :
          /\ v.out = "unreadable"
          /\ logs' = logs \o v.lines
    /\ i' = i + 1
    /\ UNCHANGED <<files, master, remote, clock, pc, manifests, raised, run,
                   readIndex, url, parsed>>

\* trim_manifest is called outside any try: its TypeError ends the run
WalkTrimRaises ==
    /\ pc = "walk" /\ i <= Len(files)
    /\ Visit(files[i], i).out = "raise"
    /\ pc' = "raised"
    /\ raised' = "trim_manifest"
    /\ UNCHANGED <<files, master, remote, clock, i, manifests, logs, run,
                   readIndex, url, parsed>>

WalkSkipInvalid ==
    /\ pc = "walk" /\ i <= Len(files)
    /\ \E v \in {Visit(files[i], i)} :
          /\ v.out = "skip"
          /\ logs' = logs \o v.lines
    /\ i' = i + 1
    /\ UNCHANGED <<files, master, remote, clock, pc, manifests, raised, run,
                   readIndex, url, parsed>>

WalkAppend ==
    /\ pc = "walk" /\ i <= Len(files)
    /\ \E v \in {Visit(files[i], i)} :
          /\ v.out = "append"
          /\ manifests' = Append(manifests, Entry(v.o, i))
    /\ i' = i + 1
    /\ UNCHANGED <<files, master, remote, clock, pc, logs, raised, run,
                   readIndex, url, parsed>>

\* the walk is over: get_last_updated_times(manifests), return manifests
Stamp ==
    /\ pc = "walk" /\ i > Len(files)
    /\ \E stamped \in {get_last_updated_times(manifests, master, clock)} :
          /\ stamped.ok
          /\ manifests' = stamped.list
    /\ readIndex' = master
    /\ pc' = "sort"
    /\ UNCHANGED <<files, master, remote, clock, i, logs, raised, run,
                   url, parsed>>

\* nothing catches what get_last_updated_times raises outside its own try
StampRaises ==
    /\ pc = "walk" /\ i > Len(files)
    /\ ~get_last_updated_times(manifests, master, clock).ok
    /\ readIndex' = master
    /\ pc' = "raised"
    /\ raised' = "get_last_updated_times"
    /\ UNCHANGED <<files, master, remote, clock, i, manifests, logs, run,
                   url, parsed>>

\* main, from the return of extract_manifests on
SortAndWrite ==
    /\ pc = "sort"
    /\ logs' = IF Len(manifests) = 0
               THEN Append(logs, Line(0, "No valid plugin manifests found", ""))
               ELSE logs
    /\ \E sorted \in {sort(manifests)} :
          /\ sorted.ok
          /\ manifests' = sorted.list
          /\ master' = write_master(sorted.list)
    /\ pc' = "done"
    /\ UNCHANGED <<files, remote, clock, i, raised, run, readIndex, url, parsed>>

\* two keys that have no "<": TypeError leaves manifests.sort and main
SortRaises ==
    /\ pc = "sort"
    /\ ~sort(manifests).ok
    /\ pc' = "raised"
    /\ raised' = "sort"
    /\ UNCHANGED <<files, master, remote, clock, i, manifests, logs, run,
                   readIndex, url, parsed>>

(***************************************************************************)
(* Between two runs plugins release new versions and time passes.          *)
(***************************************************************************)
MaxRuns == 2
MaxClockStep == 1

Release(f) ==
    IF f.kind = "object" /\ f.obj["AssemblyVersion"] = Str(<<"1">>)
    THEN [f EXCEPT !.obj["AssemblyVersion"] = Str(<<"2">>)]
    ELSE f

NextRun ==
    /\ pc = "done" /\ run < MaxRuns
    /\ \E released \in SUBSET (1..Len(files)) :
          files' = [k \in 1..Len(files) |->
                       IF k \in released THEN Release(files[k]) ELSE files[k]]
    /\ \E step \in 0..MaxClockStep : clock' = clock + step
    /\ run' = run + 1
    /\ pc' = "walk" /\ i' = 1 /\ manifests' = <<>> /\ logs' = <<>>
    /\ UNCHANGED <<master, remote, raised, readIndex, url, parsed>>

RunOnce ==
    \/ WalkSkipUnreadable
    \/ WalkTrimRaises
    \/ WalkSkipInvalid
    \/ WalkAppend
    \/ Stamp
    \/ StampRaises
    \/ SortAndWrite
    \/ SortRaises

Next == RunOnce \/ NextRun

(***************************************************************************)
(* The inputs                                                              *)
(***************************************************************************)
MaxFiles == 2
FirstClock == 9

GoodUrl == Str(<<"https:", "//", "github.com", "/", "o", "/", "r">>)

Obj(name, version, repoUrl, display) ==
    [EmptyObj EXCEPT !["InternalName"] = name, !["AssemblyVersion"] = version,
                     !["RepoUrl"] = repoUrl, !["Name"] = display]

Plugin(name, version, display) ==
    File("object", FALSE, Obj(Str(<<name>>), Str(<<version>>), GoodUrl, Str(<<display>>)))

Unreadable == File("unreadable", FALSE, EmptyObj)
JsonNumber == File("number", FALSE, EmptyObj)

\* a manifest whose AssemblyVersion is the number 1, not the string "1"
NumberVersion == File("object", FALSE, Obj(Str(<<"A">>), Num(1), GoodUrl, Str(<<"x">>)))

\* two directories may carry the same InternalName, and the same version of it
MainFiles ==
    {Plugin("A", "1", "x"), Plugin("A", "2", "x"), Plugin("B", "1", "x"),
     Plugin("A", "1", "y"),
     Unreadable, JsonNumber, NumberVersion,
     File("object", FALSE, Obj(Str(<<"A">>), Str(<<"1">>), Absent, Str(<<"x">>))),
     File("object", FALSE, Obj(List(<<"A">>), Str(<<"1">>), GoodUrl, Str(<<"x">>)))}

Counted == Response("http", 200, "object", <<Asset(Num(2)), Asset(Num(1))>>)
TimedOut == Response("timeout", 0, "garbage", <<>>)

MainRemotes == {(<<"1">> :> Counted) @@ (<<"2">> :> TimedOut)}

Start ==
    /\ clock = FirstClock
    /\ pc = "walk" /\ i = 1 /\ manifests = <<>> /\ logs = <<>>
    /\ raised = "none" /\ run = 1 /\ readIndex = NoMaster
    /\ url = <<>> /\ parsed = NotParsed

Init ==
    /\ files \in SeqsUpTo(MainFiles, MaxFiles)
    /\ master = NoMaster
    /\ remote \in MainRemotes
    /\ Start

Spec == Init /\ [][Next]_vars

(***************************************************************************)
(* The run as a whole: what main() makes of the files fs found in that     *)
(* order, of the previous pluginmaster.json and of the time.  [ok, list]:  *)
(* ok FALSE when the run raises, list what it writes.                      *)
(***************************************************************************)
RECURSIVE Collect(_, _, _)
Collect(fs, k, acc) ==
    IF k > Len(fs) THEN [ok |-> TRUE, list |-> acc]
    ELSE IF Visit(fs[k], k).out = "raise" THEN [ok |-> FALSE, list |-> acc]
    ELSE IF Visit(fs[k], k).out = "append"
    THEN Collect(fs, k + 1, Append(acc, Entry(Visit(fs[k], k).o, k)))
    ELSE Collect(fs, k + 1, acc)

extract_manifests(fs, previous, now) ==
    IF Collect(fs, 1, <<>>).ok
    THEN get_last_updated_times(Collect(fs, 1, <<>>).list, previous, now)
    ELSE [ok |-> FALSE, list |-> <<>>]

main(fs, previous, now) ==
    IF extract_manifests(fs, previous, now).ok
    THEN sort(extract_manifests(fs, previous, now).list)
    ELSE [ok |-> FALSE, list |-> <<>>]

(***************************************************************************)
(* Properties of the runs                                                  *)
(***************************************************************************)
Written == master.items

Read == readIndex.items

NameOf(m) == m.o["InternalName"]
VersionOf(m) == m.o["AssemblyVersion"]
StampOf(m) == m.o["LastUpdate"]

\* the objects of a list, without the places they came from
Objects(list) == [k \in 1..Len(list) |-> list[k].o]

\* int(s) of a string of digits
DigitValue(c) == CHOOSE d \in 0..9 : Digit(d) = c

RECURSIVE StrToInt(_)
StrToInt(s) ==
    IF Len(s) = 0 THEN 0
    ELSE 10 * StrToInt(SubSeq(s, 1, Len(s) - 1)) + DigitValue(s[Len(s)])

NowStr == Str(IntToStr(clock))

\* C1: a manifest of the new run for which the previous index holds an entry
\* with the same InternalName and an identical AssemblyVersion is written with
\* exactly that entry's LastUpdate, however far the clock advanced.
C1_UnchangedVersionKeepsLastUpdate ==
    pc = "done" =>
        \A j \in 1..Len(Written), k \in 1..Len(Read) :
            (NameOf(Read[k]) = NameOf(Written[j]) /\ VersionOf(Read[k]) = VersionOf(Written[j]))
                => StampOf(Written[j]) = StampOf(Read[k])

\* C3: whatever the manifest files hold, nothing is raised out of the run,
\* which goes on to write_master.
C3_NoManifestAbortsTheRun == pc # "raised"

\* the written array ascends by (InternalName, AssemblyVersion)
Ascending(list) ==
    \A j \in 1..Len(list), k \in 1..Len(list) :
        j < k => ~KeyLess(SortKey(list[k]), SortKey(list[j]))

Orders(n) == {p \in [1..n -> 1..n] : \A a \in 1..n, b \in 1..n : a # b => p[a] # p[b]}

\* C5: the written array is the collected manifests in ascending order of
\* (InternalName, AssemblyVersion), and it is the array the run writes
\* whatever order the walk finds the same manifest files in.
C5_SortedWhateverTheWalkOrder ==
    pc = "done" =>
        /\ Ascending(Written)
        /\ \A p \in Orders(Len(files)) :
              LET other == main([k \in 1..Len(files) |-> files[p[k]]], readIndex, clock)
              IN  other.ok /\ Objects(other.list) = Objects(Written)

\* C7: the collection extract_manifests returns, and the array written from
\* it, never holds two entries with the same (InternalName, AssemblyVersion).
C7_NameAndVersionAreUnique ==
    pc \in {"sort", "done"} =>
        \A j \in 1..Len(manifests), k \in 1..Len(manifests) :
            j # k => ~(NameOf(manifests[j]) = NameOf(manifests[k])
                       /\ VersionOf(manifests[j]) = VersionOf(manifests[k]))

\* the manifest file at place src released a new version since the last run,
\* which wrote entry before for it and now writes entry after
Rereleased(before, after) ==
    /\ before.src = after.src
    /\ NameOf(before) = NameOf(after)
    /\ VersionOf(before) # VersionOf(after)

\* C8, as claimed: a manifest whose AssemblyVersion changed between two runs
\* is written with a LastUpdate strictly greater than the one the prior run
\* wrote for it, at whatever clock readings the two runs take place.
C8_NewVersionStrictlyLater ==
    (pc = "done" /\ run > 1) =>
        \A j \in 1..Len(Written), k \in 1..Len(Read) :
            Rereleased(Read[k], Written[j])
                => StrToInt(StampOf(Written[j]).s) > StrToInt(StampOf(Read[k]).s)

\* the entry of the previous index that prev_map keeps for a manifest's name
\* already carries the manifest's version
KeptEntryHasVersion(m) ==
    /\ PrevIndexOf(Read, NameOf(m)) # 0
    /\ VersionOf(Read[PrevIndexOf(Read, NameOf(m))]) = VersionOf(m)

\* C8, amended: a manifest whose AssemblyVersion changed between two runs is
\* written with the new run's clock reading, which is later than what the
\* prior run wrote only if the clock has moved on since; but when the last
\* entry the previous index holds under its InternalName already carries the
\* new version, that entry's LastUpdate is written instead.
C8_NewVersionStampedNow ==
    (pc = "done" /\ run > 1) =>
        \A j \in 1..Len(Written), k \in 1..Len(Read) :
            Rereleased(Read[k], Written[j]) =>
                IF KeptEntryHasVersion(Written[j])
                THEN StampOf(Written[j]) = StampOf(Read[PrevIndexOf(Read, NameOf(Written[j]))])
                ELSE /\ StampOf(Written[j]) = NowStr
                     /\ StrToInt(StampOf(Written[j]).s) >= StrToInt(StampOf(Read[k]).s)

\* a new version was released, a second has passed, and the new run has
\* written the later time for it
C8_Witness ==
    /\ pc = "done" /\ run > 1
    /\ \E j \in 1..Len(Written), k \in 1..Len(Read) :
          /\ Rereleased(Read[k], Written[j])
          /\ ~KeptEntryHasVersion(Written[j])
          /\ StampOf(Written[j]) = NowStr
          /\ StrToInt(StampOf(Written[j]).s) > StrToInt(StampOf(Read[k]).s)

(***************************************************************************)
(* A single run over manifest files of every JSON shape and over every     *)
(* state of the previous pluginmaster.json.                                *)
(***************************************************************************)
Stamped(name, version, stamp) ==
    Entry([Obj(Str(<<name>>), Str(<<version>>), GoodUrl, Str(<<"x">>))
              EXCEPT !["LastUpdate"] = stamp], 0)

ShapeFiles ==
    {Plugin("A", "1", "x"), Plugin("B", "1", "x"),
     Unreadable, JsonNumber, NumberVersion,
     File("null", FALSE, EmptyObj), File("bool", FALSE, EmptyObj),
     File("string", FALSE, EmptyObj), File("string", TRUE, EmptyObj),
     File("array", FALSE, EmptyObj), File("array", TRUE, EmptyObj),
     File("object", FALSE, EmptyObj)}

ShapeMasters ==
    {[kind |-> k, items |-> <<>>] :
        k \in {"absent", "unreadable", "null", "number", "bool", "string", "object", "array"}}
    \cup
    {[kind |-> "array", items |-> items] :
        items \in {<<NotADict>>,
                   <<Entry(EmptyObj, 0)>>,
                   <<Entry(Obj(List(<<"A">>), Str(<<"1">>), GoodUrl, Absent), 0)>>,
                   <<Entry(Obj(Null, Str(<<"1">>), Absent, Absent), 0)>>,
                   <<Stamped("A", "1", Str(<<"7">>))>>,
                   <<Stamped("A", "1", Absent)>>,
                   <<Stamped("A", "2", Str(<<"7">>))>>,
                   <<NotADict, Stamped("A", "1", Str(<<"7">>))>>,
                   <<Stamped("A", "1", Str(<<"7">>)), Stamped("A", "2", Str(<<"8">>))>>}}

InitShapes ==
    /\ files \in SeqsUpTo(ShapeFiles, MaxFiles)
    /\ master \in ShapeMasters
    /\ remote \in MainRemotes
    /\ Start

SpecShapes == InitShapes /\ [][RunOnce]_vars

\* the previous index holds an entry the manifest's LastUpdate can be taken
\* from: an object of its InternalName and AssemblyVersion with a LastUpdate
HasUsableEntry(m) ==
    \E k \in 1..Len(Read) :
        /\ Read[k].dict
        /\ NameOf(Read[k]) = NameOf(m) /\ VersionOf(Read[k]) = VersionOf(m)
        /\ StampOf(Read[k]) # Absent

\* C4: whatever the previous pluginmaster.json is (absent, unreadable, not
\* JSON, or JSON that is no array of plugin objects), get_last_updated_times
\* raises nothing and every manifest with no usable previous entry is
\* stamped with the current time.
C4_CorruptIndexIsNoHistory ==
    /\ raised # "get_last_updated_times"
    /\ pc \in {"sort", "done"} =>
          \A j \in 1..Len(manifests) :
              ~HasUsableEntry(manifests[j]) => StampOf(manifests[j]) = NowStr

(***************************************************************************)
(* A single run whose first manifest file holds any mix of values under    *)
(* the required keys and the keys enrich_manifest fills in.                *)
(***************************************************************************)
NameValues == {Absent, Null, Str(<<>>), List(<<>>), EmptyDict, Str(<<" ">>), Str(<<"A">>)}

VersionValues ==
    {Absent, Null, Str(<<>>), List(<<>>), EmptyDict, Num(0), Str(<<" ">>), Str(<<"1">>),
     Str(<<" ", "1">>)}

RepoUrlValues ==
    {Absent, Null, Str(<<>>), EmptyDict, Num(5), GoodUrl,
     Str(<<"https:", "//", "github.com", "/", "o", "/", "r", "/">>),
     Str(<<"https:", "//", "gitlab.com", "/", "o", "/", "r">>),
     Str(<<"https:", "//", "github.com", "/", "o">>)}

Custom == Str(<<"https:", "//", "example.org", "/", "custom.zip">>)

\* what the author put under the keys that enrich_manifest fills in
Authored ==
    {EmptyObj,
     [EmptyObj EXCEPT !["IsHide"] = Bool(TRUE), !["IsTestingExclusive"] = Bool(TRUE),
                      !["DownloadLinkTesting"] = Custom, !["DownloadLinkUpdate"] = Custom],
     [EmptyObj EXCEPT !["ApplicableVersion"] = Str(<<"7", ".", "0">>),
                      !["DownloadLinkInstall"] = Custom, !["LastUpdate"] = Str(<<"1">>)]}

FieldFiles ==
    {File("object", FALSE,
          [a EXCEPT !["InternalName"] = name, !["AssemblyVersion"] = version,
                    !["RepoUrl"] = repoUrl]) :
        name \in NameValues, version \in VersionValues, repoUrl \in RepoUrlValues,
        a \in Authored}

OtherFiles ==
    {Plugin("A", "1", "x"), Plugin("B", "1", "x"), Unreadable, JsonNumber,
     File("object", FALSE, Obj(List(<<"A">>), Str(<<"1">>), GoodUrl, Absent))}

InitFields ==
    /\ \E first \in FieldFiles, others \in SeqsUpTo(OtherFiles, MaxFiles - 1) :
          files = <<first>> \o others
    /\ master = NoMaster
    /\ remote \in MainRemotes
    /\ Start

SpecFields == InitFields /\ [][RunOnce]_vars

BlankValues == {Null, Str(<<>>), List(<<>>)}

\* the required keys a manifest lacks: not there, or there with an empty value
Lacking(o) ==
    {key \in {"InternalName", "AssemblyVersion", "RepoUrl"} :
        o[key] = Absent \/ o[key] \in BlankValues}

\* the walk has been over the file at place k
Visited(k) == k < i

LinesFor(k, key) ==
    {j \in 1..Len(logs) : logs[j] = Line(k, "missing required key", key)}

\* C6: a manifest that lacks required fields is reported with one "missing
\* required key" line for each of them, not just the first, and is excluded:
\* no manifest lacking a required field is in the written index.
C6_EveryMissingKeyReported ==
    /\ \A k \in 1..Len(files) :
          (Visited(k) /\ files[k].kind = "object" /\ Lacking(files[k].obj) # {}) =>
              /\ \A key \in Lacking(files[k].obj) : Cardinality(LinesFor(k, key)) = 1
              /\ \A j \in 1..Len(manifests) : manifests[j].src # k
              /\ pc = "done" => \A j \in 1..Len(Written) : Written[j].src # k
    /\ pc = "done" => \A j \in 1..Len(Written) : Lacking(Written[j].o) = {}

\* a manifest lacking all three required fields was reported thrice and the
\* run has written its index
C6_Witness ==
    /\ pc = "done"
    /\ files[1].kind = "object"
    /\ Lacking(files[1].obj) = {"InternalName", "AssemblyVersion", "RepoUrl"}
    /\ \A key \in Lacking(files[1].obj) : Cardinality(LinesFor(1, key)) = 1
    /\ Len(Written) > 0

\* C10: in every entry of the written index DownloadLinkTesting and
\* DownloadLinkUpdate equal DownloadLinkInstall and IsHide and
\* IsTestingExclusive are false, whatever the manifest file held under those
\* four keys.
C10_AuthoredLinksAndFlagsDropped ==
    pc = "done" =>
        \A j \in 1..Len(Written) :
            /\ Written[j].o["DownloadLinkTesting"] = Written[j].o["DownloadLinkInstall"]
            /\ Written[j].o["DownloadLinkUpdate"] = Written[j].o["DownloadLinkInstall"]
            /\ Written[j].o["DownloadLinkInstall"].t = "str"
            /\ Written[j].o["IsHide"] = Bool(FALSE)
            /\ Written[j].o["IsTestingExclusive"] = Bool(FALSE)

\* a manifest file that set all four keys itself is in the written index
C10_Witness ==
    /\ pc = "done"
    /\ \E j \in 1..Len(Written) :
          /\ files[Written[j].src].obj["IsHide"] = Bool(TRUE)
          /\ files[Written[j].src].obj["IsTestingExclusive"] = Bool(TRUE)
          /\ files[Written[j].src].obj["DownloadLinkTesting"] = Custom
          /\ files[Written[j].src].obj["DownloadLinkUpdate"] = Custom
          /\ Written[j].o["DownloadLinkTesting"] # Custom
          /\ Written[j].o["IsHide"] = Bool(FALSE)

(***************************************************************************)
(* A single run against every answer of the releases API.                  *)
(***************************************************************************)
Responses ==
    {TimedOut, Response("refused", 0, "garbage", <<>>), NotFound,
     Response("http", 500, "garbage", <<>>),
     Response("http", 500, "object", <<Asset(Num(4))>>),
     Response("http", 200, "garbage", <<>>),
     Response("http", 200, "array", <<>>),
     Response("http", 200, "noassets", <<>>),
     Response("http", 200, "badassets", <<>>),
     Response("http", 200, "object", <<>>),
     Counted,
     Response("http", 200, "object", <<Asset(Absent), Asset(Num(1))>>),
     Response("http", 200, "object", <<Asset(Num(2)), NotAnObject>>),
     Response("http", 200, "object", <<Asset(Num(2)), Asset(Str(<<"5">>))>>),
     Response("http", 200, "object", <<Asset(Num(2)), Asset(Null)>>)}

ApiFiles ==
    {Plugin("A", "1", "x"), Plugin("B", "2", "x"),
     File("object", FALSE, Obj(Str(<<"B">>), Str(<<" ", "1">>), GoodUrl, Absent)),
     Unreadable, JsonNumber, NumberVersion,
     File("object", FALSE, Obj(Str(<<"A">>), Str(<<"1">>), Absent, Absent)),
     File("object", FALSE, Obj(List(<<"A">>), Str(<<"1">>), GoodUrl, Absent))}

InitApi ==
    /\ files \in SeqsUpTo(ApiFiles, MaxFiles)
    /\ master = NoMaster
    /\ remote \in {(<<"1">> :> r) @@ (<<"2">> :> Counted) : r \in Responses}
    /\ Start

SpecApi == InitApi /\ [][RunOnce]_vars

\* the file holds a manifest that validate_manifest passes
Validated(f) == f.kind = "object" /\ validate_manifest(trim_manifest(f)).ok

\* what the API answers for the release of the file's manifest
AnswerFor(f) == requests_get(<<>>, <<>>, strip(PyStr(f.obj["AssemblyVersion"])))

\* the body is no JSON, no object, has no list of assets, or has an asset
\* that is no object or whose download_count is no number
Malformed(r) ==
    \/ r.shape \in {"garbage", "array", "badassets"}
    \/ \E k \in 1..Len(r.assets) :
          ~r.assets[k].obj \/ r.assets[k].dc.t \in {"str", "null", "list"}

LookupFailed(r) == r.kind \in {"timeout", "refused"} \/ r.status # 200 \/ Malformed(r)

\* C2: when the download-count lookup of a validated manifest fails (non-200
\* status, timeout, network error, malformed body), the manifest is still
\* appended, with DownloadCount 0, and is written so to pluginmaster.json.
C2_FailedLookupCountsZero ==
    \A k \in 1..Len(files) :
        (Visited(k) /\ Validated(files[k]) /\ LookupFailed(AnswerFor(files[k]))) =>
            /\ \E j \in 1..Len(manifests) :
                  manifests[j].src = k /\ manifests[j].o["DownloadCount"] = Num(0)
            /\ pc = "done" =>
                  \E j \in 1..Len(Written) :
                      Written[j].src = k /\ Written[j].o["DownloadCount"] = Num(0)

\* the lookup of a validated manifest failed and the manifest has been
\* written with DownloadCount 0
C2_Witness ==
    /\ pc = "done"
    /\ \E j \in 1..Len(Written) :
          /\ Validated(files[Written[j].src])
          /\ LookupFailed(AnswerFor(files[Written[j].src]))
          /\ AnswerFor(files[Written[j].src]).kind = "http"
          /\ AnswerFor(files[Written[j].src]).status = 500
          /\ Written[j].o["DownloadCount"] = Num(0)

====
